---- MODULE Spec2Model ----
(***************************************************************************)
(* Model of src/database.rs: the account table kept in SQLite and the      *)
(* operations Account::new / create_account, deposit, withdraw, transfer,  *)
(* delete_account, show_balance and fetch_account that read and write it.  *)
(*                                                                         *)
(* Every db.execute / db.query_row of the source is its own autocommit     *)
(* statement: the source opens no transaction.  Spec runs each public      *)
(* function to completion, one call at a time; the Spec* specifications    *)
(* further down run the statements of several callers interleaved.         *)
(***************************************************************************)
EXTENDS Integers, Sequences, FiniteSets, TLC

VARIABLES
    table,      \* rows of table `account`: [id, account_number, pin, balance]
    last,       \* the call that completed last, its arguments and what it returned
    issued,     \* ids returned by create_account so far
    pc,         \* per caller: the statement it executes next
    loc         \* per caller: the arguments and local variables of its call

vars == <<table, last, issued, pc, loc>>

----------------------------------------------------------------------------
(* Bounds of the model *)

\* generated account numbers carry 1 .. MaxPayloadLen payload digits
MaxPayloadLen == 2
\* largest id create_account is explored up to
MaxId == 2
\* balances are explored within -MaxBalance .. MaxBalance
MaxBalance == 1

----------------------------------------------------------------------------
(* Strings.  An amount argument is a sequence of characters. *)

DigitChars == <<"0", "1", "2", "3", "4", "5", "6", "7", "8", "9">>

IsDigit(c) == \E i \in 1..10 : DigitChars[i] = c

DigitVal(c) == (CHOOSE i \in 1..10 : DigitChars[i] = c) - 1

RECURSIVE DecimalValue(_)
DecimalValue(s) ==
    IF s = <<>> THEN 0
    ELSE 10 * DecimalValue(SubSeq(s, 1, Len(s) - 1)) + DigitVal(s[Len(s)])

\* str::parse::<u64>() / str::parse::<usize>(): an optional "+", then one or
\* more decimal digits; a "-" is an invalid digit for an unsigned type.
ParseUnsigned(s) ==
    IF s = <<>> THEN [ok |-> FALSE, val |-> 0]
    ELSE IF Len(s) = 1 /\ s[1] \in {"+", "-"} THEN [ok |-> FALSE, val |-> 0]
    ELSE LET body == IF s[1] = "+" THEN Tail(s) ELSE s
         IN  IF \A i \in 1..Len(body) : IsDigit(body[i])
             THEN [ok |-> TRUE, val |-> DecimalValue(body)]
             ELSE [ok |-> FALSE, val |-> 0]

RECURSIVE DigitPrefix(_)
DigitPrefix(s) ==
    IF s = <<>> \/ ~IsDigit(s[1]) THEN <<>>
    ELSE <<s[1]>> \o DigitPrefix(Tail(s))

\* SQLite's conversion of a TEXT operand of `+`: the longest numeric prefix
\* (optional sign, digits), 0 when there is none.
SqliteNumeric(s) ==
    IF s = <<>> THEN 0
    ELSE LET signed == s[1] \in {"+", "-"}
             digits == DigitPrefix(IF signed THEN Tail(s) ELSE s)
         IN  IF s[1] = "-" THEN 0 - DecimalValue(digits) ELSE DecimalValue(digits)

\* the amount strings callers pass
AmountStrings ==
    { <<"0">>, <<"1">>, <<"2">>, <<"-", "1">>, <<"a">> }

\* the pin strings create_account draws and callers pass
Pins == {"123456", "654321"}

----------------------------------------------------------------------------
(* Account numbers (crate::luhn, not part of the sources at hand) *)

LuhnDouble(d) == IF 2 * d > 9 THEN 2 * d - 9 ELSE 2 * d

\* sum over digits, right to left; `dbl` tells whether the rightmost is doubled
RECURSIVE LuhnSum(_, _)
LuhnSum(ds, dbl) ==
    IF ds = <<>> THEN 0
    ELSE (IF dbl THEN LuhnDouble(ds[Len(ds)]) ELSE ds[Len(ds)])
         + LuhnSum(SubSeq(ds, 1, Len(ds) - 1), ~dbl)

\* mutant of checksum_digit: the doubling starts one digit too far left
checksum_digit_shifted(payload) == (10 - (LuhnSum(payload, FALSE) % 10)) % 10

checksum_digit(payload) == (10 - (LuhnSum(payload, TRUE) % 10)) % 10

is_valid(ds) == LuhnSum(ds, FALSE) % 10 = 0

\* the payloads the random digits are drawn from
Payloads == { <<0>>, <<1>> }

\* AccountNumber::default(): random payload digits and their check digit
AccountNumbers == { p \o <<checksum_digit(p)>> : p \in Payloads }

----------------------------------------------------------------------------
(* The table *)

RowsIn(t, n) == { r \in t : r.account_number = n }

\* the row a query returns first: rows come in rowid (= id) order
FirstOf(rs) == CHOOSE r \in rs : \A q \in rs : r.id <= q.id

\* row.get::<_, usize>() of column balance: a negative INTEGER does not
\* convert and the read fails with IntegralValueOutOfRange
Readable(r) == r.balance >= 0

\* mutant of NextId: the smallest id no row carries
NextId_lowest_free(t) ==
    CHOOSE i \in 1..(Cardinality(t) + 1) :
        /\ \A r \in t : r.id /= i
        /\ \A j \in 1..(i - 1) : \E r \in t : r.id = j

\* SELECT COALESCE(MAX(id), 0) + 1 FROM account
NextId(t) ==
    IF t = {} THEN 1
    ELSE (CHOOSE m \in { r.id : r \in t } : \A r \in t : r.id <= m) + 1

\* mutant of AddBalance: the UPDATE has no WHERE clause
AddBalance_no_where(t, n, d) == { [r EXCEPT !.balance = @ + d] : r \in t }

\* mutant of AddBalance: the row is replaced (REPLACE INTO account
\* (id, account_number, balance)), which resets its pin to the column default
AddBalance_replace(t, n, d) ==
    { IF r.account_number = n
      THEN [r EXCEPT !.balance = @ + d, !.pin = "000000"] ELSE r : r \in t }

\* UPDATE account SET balance = balance + d WHERE account_number = n
AddBalance(t, n, d) ==
    { IF r.account_number = n THEN [r EXCEPT !.balance = @ + d] ELSE r : r \in t }

\* DELETE FROM account WHERE account_number = n
DeleteRows(t, n) == { r \in t : r.account_number /= n }

\* fetch_account: the first row that decodes and carries the number
FetchOk(t, n) == \E r \in RowsIn(t, n) : Readable(r)

fetch_account(t, n) == FirstOf({ r \in RowsIn(t, n) : Readable(r) })

InBounds(t) == \A r \in t : r.balance >= 0 - MaxBalance /\ r.balance <= MaxBalance

----------------------------------------------------------------------------
(* The public functions, each as the table and the result it leaves behind *)

Out(t, res, msg) == [table |-> t, result |-> res, msg |-> msg]

\* mutant of create_account: the INSERT leaves out the pin column, so the row
\* gets the column default
create_account_default_pin(t, n, pin, id) ==
    IF \E r \in t : r.id = id
    THEN Out(t, "ConstraintViolation", "")
    ELSE Out(t \cup {[id |-> id, account_number |-> n, pin |-> "000000", balance |-> 0]},
             "Ok", "")

\* create_account: id = MAX(id) + 1, INSERT (id is the PRIMARY KEY)
create_account(t, n, pin, id) ==
    IF \E r \in t : r.id = id
    THEN Out(t, "ConstraintViolation", "")
    ELSE Out(t \cup {[id |-> id, account_number |-> n, pin |-> pin, balance |-> 0]},
             "Ok", "")

\* mutant of deposit: the pin read from the table is not compared
deposit_pin_unchecked(t, amount, pin, n) ==
    IF RowsIn(t, n) = {} THEN Out(t, "QueryReturnedNoRows", "")
    ELSE LET t2 == AddBalance(t, n, SqliteNumeric(amount))
         IN  IF Readable(FirstOf(RowsIn(t2, n)))
             THEN Out(t2, "Ok", "now has a balance")
             ELSE Out(t2, "IntegralValueOutOfRange", "")

deposit(t, amount, pin, n) ==
    IF RowsIn(t, n) = {} THEN Out(t, "QueryReturnedNoRows", "")
    ELSE IF FirstOf(RowsIn(t, n)).pin /= pin THEN Out(t, "Ok", "Wrong pin")
    ELSE LET t2 == AddBalance(t, n, SqliteNumeric(amount))
         IN  IF Readable(FirstOf(RowsIn(t2, n)))
             THEN Out(t2, "Ok", "now has a balance")
             ELSE Out(t2, "IntegralValueOutOfRange", "")

\* mutant of withdraw: the amount is not compared with the balance read
withdraw_amount_unchecked(t, amount, pin, n) ==
    IF RowsIn(t, n) = {} THEN Out(t, "QueryReturnedNoRows", "")
    ELSE IF FirstOf(RowsIn(t, n)).pin /= pin THEN Out(t, "Ok", "Wrong pin")
    ELSE IF ~Readable(FirstOf(RowsIn(t, n))) THEN Out(t, "IntegralValueOutOfRange", "")
    ELSE IF ~ParseUnsigned(amount).ok THEN Out(t, "panic", "Not able to parse")
    ELSE LET t2 == AddBalance(t, n, 0 - ParseUnsigned(amount).val)
         IN  IF Readable(FirstOf(RowsIn(t2, n)))
             THEN Out(t2, "Ok", "now has a balance")
             ELSE Out(t2, "IntegralValueOutOfRange", "")

withdraw(t, amount, pin, n) ==
    IF RowsIn(t, n) = {} THEN Out(t, "QueryReturnedNoRows", "")
    ELSE IF FirstOf(RowsIn(t, n)).pin /= pin THEN Out(t, "Ok", "Wrong pin")
    ELSE IF ~Readable(FirstOf(RowsIn(t, n))) THEN Out(t, "IntegralValueOutOfRange", "")
    ELSE IF ~ParseUnsigned(amount).ok THEN Out(t, "panic", "Not able to parse")
    ELSE IF ParseUnsigned(amount).val > FirstOf(RowsIn(t, n)).balance
         THEN Out(t, "Ok", "exceeds your current deposit")
    ELSE LET t2 == AddBalance(t, n, 0 - ParseUnsigned(amount).val)
         IN  IF Readable(FirstOf(RowsIn(t2, n)))
             THEN Out(t2, "Ok", "now has a balance")
             ELSE Out(t2, "IntegralValueOutOfRange", "")

\* mutant of transfer: origin and target are not compared
transfer_self_allowed(t, amount, pin, origin, target) ==
    IF ~FetchOk(t, origin) \/ ~FetchOk(t, target)
         THEN Out(t, "QueryReturnedNoRows", "")
    ELSE IF fetch_account(t, origin).pin /= pin THEN Out(t, "QueryReturnedNoRows", "")
    ELSE IF ~ParseUnsigned(amount).ok THEN Out(t, "QueryReturnedNoRows", "")
    ELSE IF ParseUnsigned(amount).val > fetch_account(t, origin).balance
         THEN Out(t, "QueryReturnedNoRows", "")
    ELSE LET a  == ParseUnsigned(amount).val
             t2 == AddBalance(t, target, a)
             t3 == AddBalance(t2, origin, 0 - a)
         IN  IF FetchOk(t3, origin) /\ FetchOk(t3, target)
             THEN Out(t3, "Ok", "")
             ELSE Out(t3, "QueryReturnedNoRows", "")

\* mutant of transfer: the target is fetched only after the two updates
transfer_target_unfetched(t, amount, pin, origin, target) ==
    IF origin = target THEN Out(t, "QueryReturnedNoRows", "")
    ELSE IF ~FetchOk(t, origin) THEN Out(t, "QueryReturnedNoRows", "")
    ELSE IF fetch_account(t, origin).pin /= pin THEN Out(t, "QueryReturnedNoRows", "")
    ELSE IF ~ParseUnsigned(amount).ok THEN Out(t, "QueryReturnedNoRows", "")
    ELSE IF ParseUnsigned(amount).val > fetch_account(t, origin).balance
         THEN Out(t, "QueryReturnedNoRows", "")
    ELSE LET a  == ParseUnsigned(amount).val
             t2 == AddBalance(t, target, a)
             t3 == AddBalance(t2, origin, 0 - a)
         IN  IF FetchOk(t3, origin) /\ FetchOk(t3, target)
             THEN Out(t3, "Ok", "")
             ELSE Out(t3, "QueryReturnedNoRows", "")

transfer(t, amount, pin, origin, target) ==
    IF origin = target THEN Out(t, "QueryReturnedNoRows", "")
    ELSE IF ~FetchOk(t, origin) \/ ~FetchOk(t, target)
         THEN Out(t, "QueryReturnedNoRows", "")
    ELSE IF fetch_account(t, origin).pin /= pin THEN Out(t, "QueryReturnedNoRows", "")
    ELSE IF ~ParseUnsigned(amount).ok THEN Out(t, "QueryReturnedNoRows", "")
    ELSE IF ParseUnsigned(amount).val > fetch_account(t, origin).balance
         THEN Out(t, "QueryReturnedNoRows", "")
    ELSE LET a  == ParseUnsigned(amount).val
             t2 == AddBalance(t, target, a)
             t3 == AddBalance(t2, origin, 0 - a)
         IN  IF FetchOk(t3, origin) /\ FetchOk(t3, target)
             THEN Out(t3, "Ok", "")
             ELSE Out(t3, "QueryReturnedNoRows", "")

\* mutant of delete_account: only an account with balance 0 is deleted
delete_account_zero_only(t, n, pin) ==
    IF RowsIn(t, n) = {} THEN Out(t, "QueryReturnedNoRows", "")
    ELSE IF FirstOf(RowsIn(t, n)).pin /= pin THEN Out(t, "Ok", "Wrong pin")
    ELSE IF FirstOf(RowsIn(t, n)).balance /= 0 THEN Out(t, "Ok", "balance not zero")
    ELSE Out(DeleteRows(t, n), "Ok", "DELETED ACCOUNT")

delete_account(t, n, pin) ==
    IF RowsIn(t, n) = {} THEN Out(t, "QueryReturnedNoRows", "")
    ELSE IF FirstOf(RowsIn(t, n)).pin /= pin THEN Out(t, "Ok", "Wrong pin")
    ELSE Out(DeleteRows(t, n), "Ok", "DELETED ACCOUNT")

show_balance(t, n) ==
    IF RowsIn(t, n) = {} THEN Out(t, "QueryReturnedNoRows", "")
    ELSE IF ~Readable(FirstOf(RowsIn(t, n))) THEN Out(t, "IntegralValueOutOfRange", "")
    ELSE Out(t, "Ok", "now has a balance")

----------------------------------------------------------------------------
(* One call at a time *)

Callers == {1, 2}

NoAmount == <<>>
NoNumber == <<>>

Call(op, amount, pin, origin, target, out, id) ==
    [op |-> op, amount |-> amount, pin |-> pin, origin |-> origin,
     target |-> target, result |-> out.result, msg |-> out.msg, id |-> id]

Idle == [c \in Callers |-> "idle"]

Locals(op, amount, pin, origin, target) ==
    [op |-> op, amount |-> amount, pin |-> pin, origin |-> origin, target |-> target,
     read |-> 0, pin_read |-> "", result |-> "", msg |-> ""]

NoLocals == [c \in Callers |-> Locals("none", NoAmount, "", NoNumber, NoNumber)]

NoCall ==
    [op |-> "none", amount |-> NoAmount, pin |-> "", origin |-> NoNumber,
     target |-> NoNumber, result |-> "", msg |-> "", id |-> 0]

Init ==
    /\ table = {}
    /\ last = NoCall
    /\ issued = {}
    /\ pc = Idle
    /\ loc = NoLocals

\* Account::new(): candidates are redrawn until one is not in the table
AccountNew ==
    \E n \in AccountNumbers, pin \in Pins :
        /\ RowsIn(table, n) = {}
        /\ NextId(table) <= MaxId
        /\ LET out == create_account(table, n, pin, NextId(table))
           IN  /\ table' = out.table
               /\ last' = Call("create", NoAmount, pin, n, NoNumber, out, NextId(table))
               /\ issued' = IF out.result = "Ok" THEN issued \cup {NextId(table)}
                                                 ELSE issued
        /\ UNCHANGED <<pc, loc>>

Deposit ==
    \E amount \in AmountStrings, pin \in Pins, n \in AccountNumbers :
        LET out == deposit(table, amount, pin, n)
        IN  /\ InBounds(out.table)
            /\ table' = out.table
            /\ last' = Call("deposit", amount, pin, n, NoNumber, out, 0)
            /\ UNCHANGED <<issued, pc, loc>>

Withdraw ==
    \E amount \in AmountStrings, pin \in Pins, n \in AccountNumbers :
        LET out == withdraw(table, amount, pin, n)
        IN  /\ InBounds(out.table)
            /\ table' = out.table
            /\ last' = Call("withdraw", amount, pin, n, NoNumber, out, 0)
            /\ UNCHANGED <<issued, pc, loc>>

Transfer ==
    \E amount \in AmountStrings, pin \in Pins, o \in AccountNumbers, tg \in AccountNumbers :
        LET out == transfer(table, amount, pin, o, tg)
        IN  /\ InBounds(out.table)
            /\ table' = out.table
            /\ last' = Call("transfer", amount, pin, o, tg, out, 0)
            /\ UNCHANGED <<issued, pc, loc>>

DeleteAccount ==
    \E pin \in Pins, n \in AccountNumbers :
        LET out == delete_account(table, n, pin)
        IN  /\ table' = out.table
            /\ last' = Call("delete", NoAmount, pin, n, NoNumber, out, 0)
            /\ UNCHANGED <<issued, pc, loc>>

ShowBalance ==
    \E n \in AccountNumbers :
        LET out == show_balance(table, n)
        IN  /\ table' = out.table
            /\ last' = Call("show_balance", NoAmount, "", n, NoNumber, out, 0)
            /\ UNCHANGED <<issued, pc, loc>>

Next ==
    \/ AccountNew
    \/ Deposit
    \/ Withdraw
    \/ Transfer
    \/ DeleteAccount
    \/ ShowBalance

Spec == Init /\ [][Next]_vars

----------------------------------------------------------------------------
(* Callers whose statements interleave.  Each db.execute and db.query_row is   *)
(* one step; what a caller computes between two statements belongs to the    *)
(* step of the statement before it.                                          *)

Goto(p, label) == pc' = [pc EXCEPT ![p] = label]

\* the call of p returns `res`
Return(p, res, msg) ==
    /\ pc' = [pc EXCEPT ![p] = "done"]
    /\ loc' = [loc EXCEPT ![p].result = res, ![p].msg = msg]

Ended(p) == pc[p] \in {"done", "crashed"}

(* withdraw *)

WithdrawCall(p) ==
    /\ pc[p] = "idle"
    /\ \E amount \in AmountStrings, pin \in Pins, n \in AccountNumbers :
           loc' = [loc EXCEPT ![p] = Locals("withdraw", amount, pin, n, NoNumber)]
    /\ Goto(p, "w_pin")
    /\ UNCHANGED <<table, last, issued>>

\* SELECT pin, and the comparison with the pin given
WithdrawSelectPin(p) ==
    /\ pc[p] = "w_pin"
    /\ IF RowsIn(table, loc[p].origin) = {} THEN Return(p, "QueryReturnedNoRows", "")
       ELSE IF FirstOf(RowsIn(table, loc[p].origin)).pin /= loc[p].pin
            THEN Return(p, "Ok", "Wrong pin")
       ELSE Goto(p, "w_balance") /\ UNCHANGED loc
    /\ UNCHANGED <<table, last, issued>>

\* SELECT balance into amount_from_db, the parse of the amount and the comparison
WithdrawSelectBalance(p) ==
    /\ pc[p] = "w_balance"
    /\ IF RowsIn(table, loc[p].origin) = {} THEN Return(p, "QueryReturnedNoRows", "")
       ELSE IF ~Readable(FirstOf(RowsIn(table, loc[p].origin)))
            THEN Return(p, "IntegralValueOutOfRange", "")
       ELSE IF ~ParseUnsigned(loc[p].amount).ok THEN Return(p, "panic", "Not able to parse")
       ELSE IF ParseUnsigned(loc[p].amount).val
                   > FirstOf(RowsIn(table, loc[p].origin)).balance
            THEN Return(p, "Ok", "exceeds your current deposit")
       ELSE /\ Goto(p, "w_update")
            /\ loc' = [loc EXCEPT ![p].read = FirstOf(RowsIn(table, loc[p].origin)).balance]
    /\ UNCHANGED <<table, last, issued>>

\* UPDATE account SET balance = balance - amount
WithdrawUpdate(p) ==
    /\ pc[p] = "w_update"
    /\ table' = AddBalance(table, loc[p].origin, 0 - ParseUnsigned(loc[p].amount).val)
    /\ Goto(p, "w_reread")
    /\ UNCHANGED <<loc, last, issued>>

\* SELECT balance once more, for the message
WithdrawReread(p) ==
    /\ pc[p] = "w_reread"
    /\ IF RowsIn(table, loc[p].origin) = {} THEN Return(p, "QueryReturnedNoRows", "")
       ELSE IF ~Readable(FirstOf(RowsIn(table, loc[p].origin)))
            THEN Return(p, "IntegralValueOutOfRange", "")
       ELSE Return(p, "Ok", "now has a balance")
    /\ UNCHANGED <<table, last, issued>>

\* the accounts the interleaved runs start from: created, and the first one
\* given a deposit of MaxBalance
FundedNumber == <<0>> \o <<checksum_digit(<<0>>)>>
OtherNumber == <<1>> \o <<checksum_digit(<<1>>)>>

FundedTable ==
    { [id |-> 1, account_number |-> FundedNumber, pin |-> "123456", balance |-> MaxBalance],
      [id |-> 2, account_number |-> OtherNumber, pin |-> "654321", balance |-> 0] }

InitFunded ==
    /\ table = FundedTable
    /\ last = NoCall
    /\ issued = {1, 2}
    /\ pc = Idle
    /\ loc = NoLocals

NextWithdraw ==
    \E p \in Callers :
        \/ WithdrawCall(p)
        \/ WithdrawSelectPin(p)
        \/ WithdrawSelectBalance(p)
        \/ WithdrawUpdate(p)
        \/ WithdrawReread(p)

\* two callers, each running one withdraw
SpecWithdraw == InitFunded /\ [][NextWithdraw]_vars

(* transfer *)

TransferCall(p) ==
    /\ pc[p] = "idle"
    /\ \E amount \in AmountStrings, pin \in Pins, o \in AccountNumbers, tg \in AccountNumbers :
           /\ loc' = [loc EXCEPT ![p] = Locals("transfer", amount, pin, o, tg)]
           /\ IF o = tg
              THEN pc' = [pc EXCEPT ![p] = "t_same"]
              ELSE pc' = [pc EXCEPT ![p] = "t_fetch_origin"]
    /\ UNCHANGED <<table, last, issued>>

\* origin_account == target_account: Err before the table is read
TransferSame(p) ==
    /\ pc[p] = "t_same"
    /\ Return(p, "QueryReturnedNoRows", "")
    /\ UNCHANGED <<table, last, issued>>

\* fetch_account(origin_account): its pin and balance are kept by the caller
TransferFetchOrigin(p) ==
    /\ pc[p] = "t_fetch_origin"
    /\ IF ~FetchOk(table, loc[p].origin) THEN Return(p, "QueryReturnedNoRows", "")
       ELSE /\ Goto(p, "t_fetch_target")
            /\ loc' = [loc EXCEPT ![p].read = fetch_account(table, loc[p].origin).balance,
                                  ![p].pin_read = fetch_account(table, loc[p].origin).pin]
    /\ UNCHANGED <<table, last, issued>>

\* fetch_account(target_account), then the pin, the parse and the comparison
\* of the amount with the origin balance fetched before
TransferFetchTarget(p) ==
    /\ pc[p] = "t_fetch_target"
    /\ IF ~FetchOk(table, loc[p].target) THEN Return(p, "QueryReturnedNoRows", "")
       ELSE IF loc[p].pin_read /= loc[p].pin THEN Return(p, "QueryReturnedNoRows", "")
       ELSE IF ~ParseUnsigned(loc[p].amount).ok THEN Return(p, "QueryReturnedNoRows", "")
       ELSE IF ParseUnsigned(loc[p].amount).val > loc[p].read
            THEN Return(p, "QueryReturnedNoRows", "")
       ELSE Goto(p, "t_credit") /\ UNCHANGED loc
    /\ UNCHANGED <<table, last, issued>>

\* UPDATE account SET balance = balance + amount WHERE account_number = target
TransferCredit(p) ==
    /\ pc[p] = "t_credit"
    /\ table' = AddBalance(table, loc[p].target, ParseUnsigned(loc[p].amount).val)
    /\ Goto(p, "t_debit")
    /\ UNCHANGED <<loc, last, issued>>

\* mutant of TransferDebit: the origin is set to the balance fetched earlier
\* less the amount (SET balance = ?1) instead of being lowered in place
TransferDebit_from_fetched(p) ==
    /\ pc[p] = "t_debit"
    /\ table' = { IF r.account_number = loc[p].origin
                  THEN [r EXCEPT !.balance = loc[p].read - ParseUnsigned(loc[p].amount).val]
                  ELSE r : r \in table }
    /\ Goto(p, "t_refetch_origin")
    /\ UNCHANGED <<loc, last, issued>>

\* UPDATE account SET balance = balance - amount WHERE account_number = origin
TransferDebit(p) ==
    /\ pc[p] = "t_debit"
    /\ table' = AddBalance(table, loc[p].origin, 0 - ParseUnsigned(loc[p].amount).val)
    /\ Goto(p, "t_refetch_origin")
    /\ UNCHANGED <<loc, last, issued>>

TransferRefetchOrigin(p) ==
    /\ pc[p] = "t_refetch_origin"
    /\ IF ~FetchOk(table, loc[p].origin) THEN Return(p, "QueryReturnedNoRows", "")
       ELSE Goto(p, "t_refetch_target") /\ UNCHANGED loc
    /\ UNCHANGED <<table, last, issued>>

TransferRefetchTarget(p) ==
    /\ pc[p] = "t_refetch_target"
    /\ IF ~FetchOk(table, loc[p].target) THEN Return(p, "QueryReturnedNoRows", "")
       ELSE Return(p, "Ok", "")
    /\ UNCHANGED <<table, last, issued>>

\* the process of a caller ends between two statements of its transfer (it is
\* killed, or the statement it was about to run fails): every statement before
\* has been committed on its own, none after is run
TransferCrash(p) ==
    /\ pc[p] \in {"t_fetch_origin", "t_fetch_target", "t_credit", "t_debit",
                  "t_refetch_origin", "t_refetch_target"}
    /\ pc' = [pc EXCEPT ![p] = "crashed"]
    /\ loc' = [loc EXCEPT ![p].result = "crash", ![p].msg = pc[p]]
    /\ UNCHANGED <<table, last, issued>>

NextTransfer ==
    \E p \in Callers :
        \/ TransferCall(p)
        \/ TransferSame(p)
        \/ TransferFetchOrigin(p)
        \/ TransferFetchTarget(p)
        \/ TransferCredit(p)
        \/ TransferDebit(p)
        \/ TransferRefetchOrigin(p)
        \/ TransferRefetchTarget(p)
        \/ TransferCrash(p)

\* two callers, each running one transfer that may end at any statement
SpecTransfer == InitFunded /\ [][NextTransfer]_vars

(* Account::new, create_account and delete_account *)

\* AccountNumber::default(): the first candidate
NewCall(p) ==
    /\ pc[p] = "idle"
    /\ NextId(table) <= MaxId
    /\ \E n \in AccountNumbers :
           loc' = [loc EXCEPT ![p] = Locals("create", NoAmount, "", n, NoNumber)]
    /\ Goto(p, "c_exists")
    /\ UNCHANGED <<table, last, issued>>

\* mutant of NewSelectExists: a colliding candidate ends the call with an error
NewSelectExists_gives_up(p) ==
    /\ pc[p] = "c_exists"
    /\ IF RowsIn(table, loc[p].origin) /= {}
       THEN Return(p, "DuplicateKey", "")
       ELSE Goto(p, "c_max_id") /\ UNCHANGED loc
    /\ UNCHANGED <<table, last, issued>>

\* SELECT 1 FROM account where account_number = candidate: a row means another
\* candidate is drawn, no row leaves the loop
NewSelectExists(p) ==
    /\ pc[p] = "c_exists"
    /\ IF RowsIn(table, loc[p].origin) /= {}
       THEN /\ \E n \in AccountNumbers : loc' = [loc EXCEPT ![p].origin = n]
            /\ UNCHANGED pc
       ELSE Goto(p, "c_max_id") /\ UNCHANGED loc
    /\ UNCHANGED <<table, last, issued>>

\* create_account: SELECT COALESCE(MAX(id), 0) + 1, then the six pin digits
CreateSelectMaxId(p) ==
    /\ pc[p] = "c_max_id"
    /\ NextId(table) <= MaxId
    /\ \E pin \in Pins : loc' = [loc EXCEPT ![p].read = NextId(table), ![p].pin = pin]
    /\ Goto(p, "c_insert")
    /\ UNCHANGED <<table, last, issued>>

\* INSERT INTO account
CreateInsert(p) ==
    /\ pc[p] = "c_insert"
    /\ LET out == create_account(table, loc[p].origin, loc[p].pin, loc[p].read)
       IN  /\ table' = out.table
           /\ Return(p, out.result, out.msg)
           /\ issued' = IF out.result = "Ok" THEN issued \cup {loc[p].read} ELSE issued
    /\ UNCHANGED last

DeleteCall(p) ==
    /\ pc[p] = "idle"
    /\ \E pin \in Pins, n \in AccountNumbers :
           loc' = [loc EXCEPT ![p] = Locals("delete", NoAmount, pin, n, NoNumber)]
    /\ Goto(p, "d_pin")
    /\ UNCHANGED <<table, last, issued>>

\* SELECT pin, and the comparison with the pin given
DeleteSelectPin(p) ==
    /\ pc[p] = "d_pin"
    /\ IF RowsIn(table, loc[p].origin) = {} THEN Return(p, "QueryReturnedNoRows", "")
       ELSE IF FirstOf(RowsIn(table, loc[p].origin)).pin /= loc[p].pin
            THEN Return(p, "Ok", "Wrong pin")
       ELSE Goto(p, "d_delete") /\ UNCHANGED loc
    /\ UNCHANGED <<table, last, issued>>

\* DELETE FROM account WHERE account_number = ?1
DeleteExecute(p) ==
    /\ pc[p] = "d_delete"
    /\ table' = DeleteRows(table, loc[p].origin)
    /\ Return(p, "Ok", "DELETED ACCOUNT")
    /\ UNCHANGED <<last, issued>>

\* the caller makes its next call
Returned(p) ==
    /\ pc[p] = "done"
    /\ Goto(p, "idle")
    /\ loc' = [loc EXCEPT ![p] = Locals("none", NoAmount, "", NoNumber, NoNumber)]
    /\ UNCHANGED <<table, last, issued>>

NextCreate ==
    \E p \in Callers :
        \/ NewCall(p)
        \/ NewSelectExists(p)
        \/ CreateSelectMaxId(p)
        \/ CreateInsert(p)
        \/ DeleteCall(p)
        \/ DeleteSelectPin(p)
        \/ DeleteExecute(p)
        \/ Returned(p)

\* two callers creating and deleting accounts, call after call
SpecCreate == Init /\ [][NextCreate]_vars

\* the statements of a call that has begun: the process of a caller keeps
\* running, so the next statement of its call is executed eventually
RunningStep(p) ==
    \/ NewSelectExists(p)
    \/ CreateSelectMaxId(p)
    \/ CreateInsert(p)
    \/ DeleteSelectPin(p)
    \/ DeleteExecute(p)

SpecCreateFair == SpecCreate /\ \A p \in Callers : WF_vars(RunningStep(p))

(* Account::new over every payload the generator can draw *)

Digits == 0..9

RECURSIVE DigitSeqs(_)
DigitSeqs(len) ==
    IF len = 0 THEN { <<>> }
    ELSE { s \o <<d>> : s \in DigitSeqs(len - 1), d \in Digits }

AllPayloads == UNION { DigitSeqs(len) : len \in 1..MaxPayloadLen }

\* AccountNumber::default(): payload digits drawn at random, check digit appended
GenerateCall(p) ==
    /\ pc[p] = "idle"
    /\ \E payload \in AllPayloads :
           loc' = [loc EXCEPT ![p] = Locals("create", NoAmount, "",
                                            payload \o <<checksum_digit(payload)>>, NoNumber)]
    /\ Goto(p, "c_exists")
    /\ UNCHANGED <<table, last, issued>>

NextGenerate ==
    \/ GenerateCall(1)
    \/ NewSelectExists(1)
    \/ CreateSelectMaxId(1)
    \/ CreateInsert(1)

\* one caller creating one account, its number drawn from all payloads
SpecGenerate == Init /\ [][NextGenerate]_vars

----------------------------------------------------------------------------
(* Properties of calls that run one at a time (Spec) *)

\* the row of a live account (account numbers are distinct under Spec)
Account(t, n) == FirstOf(RowsIn(t, n))

Exists(t, n) == RowsIn(t, n) /= {}

\* a step of Spec is a call of `op`: every call records itself in `last`
Called(op) == last'.op = op

\* the call returned Err(_) to its caller
IsErr(res) == res \in {"QueryReturnedNoRows", "IntegralValueOutOfRange", "ConstraintViolation"}

\* C1: a transfer of amount a between two distinct existing accounts, with the
\* origin's pin and a <= origin.balance, succeeds, lowers origin.balance by a,
\* raises target.balance by a and changes no other balance.
C1_TransferMovesAmount ==
    [][ ( /\ Called("transfer")
          /\ last'.origin /= last'.target
          /\ Exists(table, last'.origin) /\ Exists(table, last'.target)
          /\ Account(table, last'.origin).pin = last'.pin
          /\ ParseUnsigned(last'.amount).ok
          /\ ParseUnsigned(last'.amount).val <= Account(table, last'.origin).balance )
        => ( /\ last'.result = "Ok"
             /\ table' = AddBalance(AddBalance(table, last'.target,
                                               ParseUnsigned(last'.amount).val),
                                    last'.origin, 0 - ParseUnsigned(last'.amount).val) )
      ]_vars

\* C2: every live account has balance >= 0 in every state reached by whole calls.
C2_BalanceNonNegative == \A r \in table : r.balance >= 0

\* C4 as stated: a deposit, withdraw, transfer or delete_account with a pin that
\* differs from the stored pin returns an error to the caller and changes nothing.
WrongPinCall ==
    /\ \/ Called("deposit") \/ Called("withdraw") \/ Called("transfer") \/ Called("delete")
    /\ Exists(table, last'.origin)
    /\ Account(table, last'.origin).pin /= last'.pin

ExceedingCall ==
    /\ Called("withdraw") \/ Called("transfer")
    /\ Exists(table, last'.origin)
    /\ Account(table, last'.origin).pin = last'.pin
    /\ ParseUnsigned(last'.amount).ok
    /\ ParseUnsigned(last'.amount).val > Account(table, last'.origin).balance

C8_InvalidAmountRejected ==
    [][ ( /\ Called("deposit") \/ Called("withdraw") \/ Called("transfer")
          /\ Exists(table, last'.origin)
          /\ Account(table, last'.origin).pin = last'.pin
          /\ ~ParseUnsigned(last'.amount).ok )
        => (IsErr(last'.result) /\ table' = table) ]_vars

\* C9 as stated: the id of a newly created account is greater than the id of
\* every account created before it, deleted ones included.
Created == Called("create") /\ last'.result = "Ok"

C9_IdNeverReused == [][ Created => \A i \in issued : last'.id > i ]_vars

\* C9 amended: the id of a newly created account is greater than the id of every
\* account that is live when it is created; the id of a deleted account that
\* held the largest id is given out again.
C9_IdAboveLiveIds ==
    [][ Created => ( /\ \A r \in table : last'.id > r.id
                     /\ \E r \in table' \ table : r.id = last'.id ) ]_vars

C9_Witness ==
    /\ last.op = "create"
    /\ last.result = "Ok"
    /\ \E r \in table : r.id < last.id
    /\ \E r \in table : r.id = last.id

\* C10: a transfer whose origin and target are the same account number returns
\* an error, whatever the pin and the amount, and changes no balance.
C10_SelfTransferFails ==
    [][ (Called("transfer") /\ last'.origin = last'.target)
        => (last'.result = "QueryReturnedNoRows" /\ table' = table) ]_vars

C10_Witness ==
    /\ last.op = "transfer"
    /\ last.origin = last.target
    /\ Exists(table, last.origin)
    /\ Account(table, last.origin).pin = last.pin
    /\ ParseUnsigned(last.amount).ok
    /\ ParseUnsigned(last.amount).val > 0
    /\ ParseUnsigned(last.amount).val <= Account(table, last.origin).balance
    /\ last.result = "QueryReturnedNoRows"

\* the deposit of tests::transferred_balance_is_correct
TenThousand == <<"1", "0", "0", "0", "0">>

\* C11: a deposit of a non-negative integer amount with the correct pin into an
\* existing account leaves that account with its old balance plus the amount and
\* every other row as it was; 10000 deposited into an account just created
\* leaves it with balance 10000.
C11_DepositAddsAmount ==
    [][ /\ ( /\ Called("deposit")
             /\ Exists(table, last'.origin)
             /\ Account(table, last'.origin).pin = last'.pin
             /\ ParseUnsigned(last'.amount).ok )
           => ( /\ Exists(table', last'.origin)
                /\ Account(table', last'.origin).balance
                     = Account(table, last'.origin).balance + ParseUnsigned(last'.amount).val
                /\ \A r \in table : r.account_number /= last'.origin => r \in table'
                /\ Cardinality(table') = Cardinality(table) )
        /\ Created
           => LET out == deposit(table', TenThousand, last'.pin, last'.origin)
              IN  /\ out.result = "Ok"
                  /\ Account(out.table, last'.origin).balance = 10000
                  /\ \A r \in table : r \in out.table
      ]_vars

C11_Witness ==
    /\ last.op = "deposit"
    /\ last.result = "Ok"
    /\ ParseUnsigned(last.amount).ok
    /\ ParseUnsigned(last.amount).val > 0
    /\ Exists(table, last.origin)
    /\ Account(table, last.origin).pin = last.pin
    /\ Account(table, last.origin).balance = ParseUnsigned(last.amount).val
    /\ Cardinality(table) = 2

\* C12: delete_account with the correct pin removes the account whatever its
\* balance is, a fetch of its number then fails with no row found, and every
\* other row stays as it was.
C12_DeleteRemovesAccount ==
    [][ ( /\ Called("delete")
          /\ Exists(table, last'.origin)
          /\ Account(table, last'.origin).pin = last'.pin )
        => ( /\ last'.result = "Ok"
             /\ ~FetchOk(table', last'.origin)
             /\ ~Exists(table', last'.origin)
             /\ \A r \in table : r.account_number /= last'.origin => r \in table'
             /\ table' \subseteq table ) ]_vars

C12_Witness ==
    /\ last.op = "delete"
    /\ last.msg = "DELETED ACCOUNT"
    /\ ~Exists(table, last.origin)
    /\ \E r \in table : r.balance /= 0

C16_CreateThenFetch ==
    [][ Created =>
          ( /\ FetchOk(table', last'.origin)
            /\ fetch_account(table', last'.origin).id = last'.id
            /\ fetch_account(table', last'.origin).pin = last'.pin
            /\ fetch_account(table', last'.origin).balance = 0 ) ]_vars

C16_Witness ==
    /\ last.op = "create"
    /\ last.result = "Ok"
    /\ last.id > 1
    /\ Cardinality(table) = 2
    /\ FetchOk(table, last.origin)

\* the call deletes row r: delete_account on its number with its pin
Deletes(r) ==
    /\ Called("delete")
    /\ last'.origin = r.account_number
    /\ last'.pin = r.pin

\* C17: the id, account_number and pin of a live account never change: every
\* call leaves each row it does not delete with these three fields as they
\* were, and show_balance changes no field of any row.
C17_IdentityFieldsImmutable ==
    [][ /\ \A r \in table :
               \/ Deletes(r)
               \/ \E q \in table' : /\ q.id = r.id
                                     /\ q.account_number = r.account_number
                                     /\ q.pin = r.pin
        /\ Called("show_balance") => table' = table
        /\ ~Called("create") => Cardinality(table') <= Cardinality(table)
      ]_vars

C17_Witness ==
    /\ last.op = "transfer"
    /\ last.result = "Ok"
    /\ ParseUnsigned(last.amount).val > 0
    /\ Account(table, last.target).balance > 0

----------------------------------------------------------------------------
(* Properties of interleaved calls *)

TotalBalance(t) ==
    LET RECURSIVE Sum(_)
        Sum(rs) == IF rs = {} THEN 0
                   ELSE LET r == CHOOSE x \in rs : TRUE
                        IN  r.balance + Sum(rs \ {r})
    IN  Sum(t)

\* what the withdraw of caller p took out, as told to its caller
Withdrawn(p) ==
    IF loc[p].op = "withdraw" /\ loc[p].result = "Ok" /\ loc[p].msg = "now has a balance"
    THEN ParseUnsigned(loc[p].amount).val
    ELSE 0

\* C5: when two callers withdraw from the same account concurrently, the final
\* balance is the initial balance less the withdrawals that succeeded, and it is
\* never negative.
C5_ConcurrentWithdrawals ==
    /\ \A r \in table : r.balance >= 0
    /\ (\A p \in Callers : Ended(p))
           => TotalBalance(table) = MaxBalance - (Withdrawn(1) + Withdrawn(2))


\* C3: a transfer applies both balance updates or none: once every transfer has
\* ended, returned or crashed, the balances add up to what they added up to
\* before, no leg having been applied without the other.
C3_TransferAllOrNothing ==
    (\A p \in Callers : Ended(p)) => TotalBalance(table) = TotalBalance(FundedTable)

\* C18: when the transfers of several callers interleave and all run to their
\* end without a crash, the balances of all accounts add up to what they added
\* up to before the first one began.
C18_ConcurrentTransfersConserve ==
    (\A p \in Callers : pc[p] = "done")
        => TotalBalance(table) = TotalBalance(FundedTable)

\* both transfers passed the balance comparison on the same fetched balance
C18_Witness ==
    /\ \A p \in Callers : pc[p] = "done" /\ loc[p].op = "transfer"
    /\ \A p \in Callers : loc[p].read = MaxBalance /\ ParseUnsigned(loc[p].amount).val > 0
    /\ \E r \in table : r.balance < 0
    /\ \E r \in table : r.balance > MaxBalance

\* C6: all live accounts have pairwise distinct account numbers, also when the
\* exists-check and the insert of different callers interleave.
C6_AccountNumbersDistinct ==
    \A r \in table : \A q \in table : r.account_number = q.account_number => r = q

----------------------------------------------------------------------------
(* Properties of generated account numbers (SpecGenerate) *)

\* C13: every generated account number is checksum-valid: the payload with its
\* checksum digit appended satisfies is_valid, for the candidate a creation
\* holds and for the number of every account created.
C13_GeneratedNumbersValid ==
    /\ \A p \in Callers : loc[p].op = "create" => is_valid(loc[p].origin)
    /\ \A r \in table : is_valid(r.account_number)

C13_Witness ==
    \E r \in table :
        /\ Len(r.account_number) > 2
        /\ r.account_number[Len(r.account_number) - 1] > 4
        /\ r.account_number[Len(r.account_number)] > 0

====
